---- MODULE Spec2Model ----
(***************************************************************************)
(* Model of src/app.py: the listing and detail resolution pipeline of the  *)
(* movie catalogue scraper (page fetcher with its memo, fuzzy language     *)
(* resolver, title normaliser, block extractor on a worker pool, video URL *)
(* resolver and the three request handlers).                               *)
(*                                                                         *)
(* Text is modelled character by character: a Python str is a sequence of  *)
(* one-character strings, so that the regular expressions, strip(),        *)
(* len(), isdigit() and difflib's ratio are computed, not assumed.         *)
(***************************************************************************)
EXTENDS Integers, Sequences, FiniteSets, TLC

(***************************************************************************)
(* Characters and Python's str helpers                                     *)
(***************************************************************************)
UpperChars == <<"A","B","C","D","E","F","G","H","I","J","K","L","M",
                "N","O","P","Q","R","S","T","U","V","W","X","Y","Z">>

LowerChars == <<"a","b","c","d","e","f","g","h","i","j","k","l","m",
                "n","o","p","q","r","s","t","u","v","w","x","y","z">>

\* str.lower() on one character
LowerChar(c) ==
    IF \E k \in 1..26 : UpperChars[k] = c
    THEN LowerChars[CHOOSE k \in 1..26 : UpperChars[k] = c]
    ELSE c

\* str.upper() on one character
UpperChar(c) ==
    IF \E k \in 1..26 : LowerChars[k] = c
    THEN UpperChars[CHOOSE k \in 1..26 : LowerChars[k] = c]
    ELSE c

\* str.lower()
Lower(s) == [k \in 1..Len(s) |-> LowerChar(s[k])]

\* the regex class \s and what str.strip() removes
IsSpace(c) == c \in {" ", "\t", "\n", "\r"}

\* the regex class \d and str.isdigit() on one character
IsDigit(c) == c \in {"0","1","2","3","4","5","6","7","8","9"}

\* str.isdigit(): non-empty and every character a digit
IsDigitStr(s) == Len(s) > 0 /\ \A k \in 1..Len(s) : IsDigit(s[k])

\* str.strip()
Strip(s) ==
    LET keep == {k \in 1..Len(s) : ~IsSpace(s[k])}
    IN IF keep = {} THEN << >>
       ELSE LET lo == CHOOSE k \in keep : \A m \in keep : k <= m
                hi == CHOOSE k \in keep : \A m \in keep : k >= m
            IN SubSeq(s, lo, hi)

\* Optional[str]: Python's None against a str (the empty str included)
None == [some |-> FALSE, s |-> << >>]

Some(s) == [some |-> TRUE, s |-> s]

\* Python truthiness of an Optional[str]
Truthy(o) == o.some /\ o.s # << >>

(***************************************************************************)
(* Regular expression pieces.  A position is a 1-based index; a match at i *)
(* is reported as the index just past it, 0 meaning no match.              *)
(***************************************************************************)
\* greedy \s* from i: the first index at or after i that holds no whitespace
SkipWs(s, i) ==
    CHOOSE j \in i..(Len(s) + 1) :
        /\ \A k \in i..(j - 1) : IsSpace(s[k])
        /\ (j = Len(s) + 1 \/ ~IsSpace(s[j]))

\* a literal under re.IGNORECASE at i
LitAt(s, i, lit) ==
    IF /\ i >= 1
       /\ i + Len(lit) - 1 <= Len(s)
       /\ \A k \in 1..Len(lit) : LowerChar(s[i + k - 1]) = LowerChar(lit[k])
    THEN i + Len(lit)
    ELSE 0

\* a literal matched case-sensitively at i
LitAtCS(s, i, lit) ==
    IF /\ i >= 1
       /\ i + Len(lit) - 1 <= Len(s)
       /\ \A k \in 1..Len(lit) : s[i + k - 1] = lit[k]
    THEN i + Len(lit)
    ELSE 0

\* $ without re.MULTILINE: the end, or just before a final newline
DollarAt(s, i) == i = Len(s) + 1 \/ (i = Len(s) /\ s[i] = "\n")

\* the first alternative of a list of literals that matches at i
AltAt(s, i, lits) ==
    IF \E k \in 1..Len(lits) : LitAt(s, i, lits[k]) # 0
    THEN LitAt(s, i, lits[CHOOSE k \in 1..Len(lits) :
                             /\ LitAt(s, i, lits[k]) # 0
                             /\ \A m \in 1..(k - 1) : LitAt(s, i, lits[m]) = 0])
    ELSE 0

\* \(\d{4}\) at i
YearAt(s, i) ==
    IF /\ i >= 1
       /\ i + 5 <= Len(s)
       /\ s[i] = "("
       /\ \A k \in 1..4 : IsDigit(s[i + k])
       /\ s[i + 5] = ")"
    THEN i + 6
    ELSE 0

\* one character out of a class at i
ClassAt(s, i, class) ==
    IF i >= 1 /\ i <= Len(s) /\ s[i] \in class THEN i + 1 ELSE 0

\* e then \s*: 0 stays 0
ThenWs(s, e) == IF e = 0 THEN 0 ELSE SkipWs(s, e)

(***************************************************************************)
(* TITLE_PATTERNS and clean_title                                          *)
(***************************************************************************)
S_Einthusan == <<"E","i","n","t","h","u","s","a","n">>

S_WatchMoviesOnline ==
    <<"W","a","t","c","h"," ","M","o","v","i","e","s"," ","O","n","l","i","n","e">>

S_WatchFullMovieOnlineFree ==
    <<"W","a","t","c","h"," ","F","u","l","l"," ","M","o","v","i","e"," ",
      "O","n","l","i","n","e"," ","F","r","e","e">>

S_OnlineWatchFree ==
    <<"O","n","l","i","n","e"," ","W","a","t","c","h"," ","F","r","e","e"," ">>

S_FreeMoviesOnline ==
    <<"F","r","e","e"," ","M","o","v","i","e","s"," ","O","n","l","i","n","e">>

S_in == <<"i","n">>

\* (?:HD|SD)
Qualities == << <<"H","D">>, <<"S","D">> >>

\* (Tamil|Hindi|Telugu|Malayalam|Kannada|Bengali|Marathi|Punjabi)
PatternLanguages ==
    << <<"T","a","m","i","l">>,
       <<"H","i","n","d","i">>,
       <<"T","e","l","u","g","u">>,
       <<"M","a","l","a","y","a","l","a","m">>,
       <<"K","a","n","n","a","d","a">>,
       <<"B","e","n","g","a","l","i">>,
       <<"M","a","r","a","t","h","i">>,
       <<"P","u","n","j","a","b","i">> >>

\* [-–—]: hyphen, en dash, em dash (the two non-ASCII dashes as named atoms)
Dashes == {"-", "&ndash;", "&mdash;"}

\* e then $: e if the end is there, else 0
ThenDollar(s, e) == IF e # 0 /\ DollarAt(s, e) THEN e ELSE 0

\* Einthusan(?:\s*-\s*Watch Movies Online)?$ continued from just past
\* "Einthusan": the optional group is tried first, then the bare $
BrandTail(s, e) ==
    IF e = 0 THEN 0
    ELSE LET dash == ClassAt(s, SkipWs(s, e), {"-"})
             lit  == LitAt(s, ThenWs(s, dash), S_WatchMoviesOnline)
         IN IF ThenDollar(s, lit) # 0 THEN lit ELSE ThenDollar(s, e)

\* ^Einthusan\s*[-–—]\s*   (re.IGNORECASE)
Pattern1(s, i) ==
    IF i # 1 THEN 0
    ELSE ThenWs(s, ClassAt(s, ThenWs(s, LitAt(s, 1, S_Einthusan)), Dashes))

\* \s*\(\d{4}\)\s*$
Pattern2(s, i) ==
    LET e == ThenWs(s, YearAt(s, SkipWs(s, i)))
    IN IF e = Len(s) + 1 THEN e ELSE 0

\* \s*\[(Tamil|...|Punjabi)\]   (re.IGNORECASE)
Pattern3(s, i) ==
    ClassAt(s, AltAt(s, ClassAt(s, SkipWs(s, i), {"["}), PatternLanguages), {"]"})

\* \s*\(\d{4}\)\s*(?:Tamil|...)\s*in\s*(?:HD|SD)\s*-\s*Einthusan
\*    (?:\s*-\s*Watch Movies Online)?$   (re.IGNORECASE)
Pattern4(s, i) ==
    LET year == ThenWs(s, YearAt(s, SkipWs(s, i)))
        lang == ThenWs(s, AltAt(s, year, PatternLanguages))
        inw  == ThenWs(s, LitAt(s, lang, S_in))
        qual == ThenWs(s, AltAt(s, inw, Qualities))
        dash == ThenWs(s, ClassAt(s, qual, {"-"}))
    IN BrandTail(s, LitAt(s, dash, S_Einthusan))

\* \|\s*Einthusan(?:\s*-\s*Watch Movies Online)?$   (re.IGNORECASE)
Pattern5(s, i) ==
    BrandTail(s, LitAt(s, ThenWs(s, ClassAt(s, i, {"|"})), S_Einthusan))

\* Watch Full Movie Online Free$   (re.IGNORECASE)
Pattern6(s, i) == ThenDollar(s, LitAt(s, i, S_WatchFullMovieOnlineFree))

\* Online Watch Free (?:HD|SD)$   (re.IGNORECASE)
Pattern7(s, i) == ThenDollar(s, AltAt(s, LitAt(s, i, S_OnlineWatchFree), Qualities))

\* Free Movies Online$   (re.IGNORECASE)
Pattern8(s, i) == ThenDollar(s, LitAt(s, i, S_FreeMoviesOnline))

\* the number of rules of TITLE_PATTERNS
NumPatterns == 8

\* pattern.match at position i for the k-th rule of TITLE_PATTERNS
MatchEnd(k, s, i) ==
    CASE k = 1 -> Pattern1(s, i)
      [] k = 2 -> Pattern2(s, i)
      [] k = 3 -> Pattern3(s, i)
      [] k = 4 -> Pattern4(s, i)
      [] k = 5 -> Pattern5(s, i)
      [] k = 6 -> Pattern6(s, i)
      [] k = 7 -> Pattern7(s, i)
      [] k = 8 -> Pattern8(s, i)

\* the replacement of the k-th rule: every rule of the table replaces by ''
Replacement(k) == << >>

\* the matches of the k-th rule that start at or after i, as <<start, end>>
\* (no rule of the table matches the empty string)
MatchesFrom(k, s, i) ==
    {m \in {<<j, MatchEnd(k, s, j)>> : j \in i..Len(s)} : m[2] # 0}

\* the leftmost of a non-empty set of matches
Leftmost(matches) == CHOOSE m \in matches : \A n \in matches : m[1] <= n[1]

\* pattern.sub(repl, s): the leftmost non-overlapping matches are replaced,
\* scanning from i
RECURSIVE SubFrom(_, _, _)
RECURSIVE SubMatches(_, _, _, _)
SubFrom(k, s, i) == SubMatches(k, s, i, MatchesFrom(k, s, i))

\* what precedes the leftmost match, the replacement, and the rest from the
\* end of that match on
RECURSIVE SubAround(_, _, _, _)
SubMatches(k, s, i, matches) ==
    IF matches = {} THEN SubSeq(s, i, Len(s))
    ELSE SubAround(k, s, i, Leftmost(matches))

SubAround(k, s, i, m) ==
    SubSeq(s, i, m[1] - 1) \o Replacement(k) \o SubFrom(k, s, m[2])

\* for pattern, repl in TITLE_PATTERNS: title = pattern.sub(repl, title),
\* from rule k on
RECURSIVE ApplyPatterns(_, _)
ApplyPatterns(s, k) ==
    IF k > NumPatterns THEN s ELSE ApplyPatterns(SubFrom(k, s, 1), k + 1)

\* clean_title(title): None for a falsy title, else strip, the rules in
\* order, strip
clean_title(title) ==
    IF ~Truthy(title) THEN None
    ELSE Some(Strip(ApplyPatterns(Strip(title.s), 1)))

(***************************************************************************)
(* LANGUAGE_CODES and correct_spelling (difflib.get_close_matches)         *)
(***************************************************************************)
L_tamil == <<"t","a","m","i","l">>

\* tuple(LANGUAGE_CODES.keys()), in insertion order
LanguageKeys ==
    << L_tamil,
       <<"h","i","n","d","i">>,
       <<"t","e","l","u","g","u">>,
       <<"m","a","l","a","y","a","l","a","m">>,
       <<"k","a","n","n","a","d","a">>,
       <<"b","e","n","g","a","l","i">>,
       <<"m","a","r","a","t","h","i">>,
       <<"p","u","n","j","a","b","i">> >>

\* the dictionary: every key maps to itself
LANGUAGE_CODES == [k \in {LanguageKeys[n] : n \in 1..Len(LanguageKeys)} |-> k]

\* a[i..i+k-1] = b[j..j+k-1]
BlockAt(a, b, i, j, k) == \A d \in 0..(k - 1) : a[i + d] = b[j + d]

Min2(x, y) == IF x <= y THEN x ELSE y

\* the blocks of size k inside a[alo..ahi], b[blo..bhi], as <<i, j>>
BlocksOfSize(a, b, alo, ahi, blo, bhi, k) ==
    {ij \in (alo..(ahi - k + 1)) \X (blo..(bhi - k + 1)) :
        BlockAt(a, b, ij[1], ij[2], k)}

\* SequenceMatcher.find_longest_match (no junk: autojunk needs len(b) >= 200):
\* the longest block, of those the one starting earliest in a, of those the
\* one starting earliest in b; <<i, j, k>> with k = 0 when nothing matches
find_longest_match(a, b, alo, ahi, blo, bhi) ==
    LET most  == Min2(ahi - alo + 1, bhi - blo + 1)
        sizes == {k \in 1..most : BlocksOfSize(a, b, alo, ahi, blo, bhi, k) # {}}
        best  == CHOOSE x \in sizes : \A y \in sizes : y <= x
        bl    == BlocksOfSize(a, b, alo, ahi, blo, bhi, best)
        is    == {ij[1] : ij \in bl}
        i     == CHOOSE x \in is : \A y \in is : x <= y
        js    == {ij[2] : ij \in {q \in bl : q[1] = i}}
        j     == CHOOSE x \in js : \A y \in js : x <= y
    IN IF sizes = {} THEN <<alo, blo, 0>> ELSE <<i, j, best>>

\* the sum of the sizes of SequenceMatcher.get_matching_blocks over
\* a[alo..ahi], b[blo..bhi]: the longest block, then left and right of it
RECURSIVE MatchingSize(_, _, _, _, _, _)
RECURSIVE MatchingAround(_, _, _, _, _, _, _)
MatchingSize(a, b, alo, ahi, blo, bhi) ==
    IF alo > ahi \/ blo > bhi THEN 0
    ELSE MatchingAround(a, b, alo, ahi, blo, bhi,
                        find_longest_match(a, b, alo, ahi, blo, bhi))

\* the size of the block m, then of the blocks left and right of it
MatchingAround(a, b, alo, ahi, blo, bhi, m) ==
    IF m[3] = 0 THEN 0
    ELSE m[3]
         + MatchingSize(a, b, alo, m[1] - 1, blo, m[2] - 1)
         + MatchingSize(a, b, m[1] + m[3], ahi, m[2] + m[3], bhi)

\* SequenceMatcher.ratio() = 2.0 * matches / (len(a) + len(b)), kept as the
\* pair <<2 * matches, len(a) + len(b)>>
Ratio(a, b) == <<2 * MatchingSize(a, b, 1, Len(a), 1, Len(b)), Len(a) + Len(b)>>

\* cutoff=0.7 as the fraction 7 / 10
CutoffNum == 7

CutoffDen == 10

\* ratio >= cutoff (an empty pair of sequences has ratio 1.0)
AtLeastCutoff(r) == r[2] = 0 \/ r[1] * CutoffDen >= CutoffNum * r[2]

\* r1 < r2 for two ratios with non-zero lengths
RatioLess(r1, r2) == r1[1] * r2[2] < r2[1] * r1[2]

\* Python's str < str on lower-case words
RECURSIVE StrLess(_, _)
StrLess(x, y) ==
    IF y = << >> THEN FALSE
    ELSE IF x = << >> THEN TRUE
    ELSE IF x[1] # y[1]
         THEN (CHOOSE k \in 1..26 : LowerChars[k] = x[1])
              < (CHOOSE k \in 1..26 : LowerChars[k] = y[1])
         ELSE StrLess(Tail(x), Tail(y))

\* (score, x) < (score', x') on the tuples get_close_matches ranks
ScoredLess(rx, x, ry, y) ==
    \/ RatioLess(rx, ry)
    \/ /\ ~RatioLess(ry, rx)
       /\ StrLess(x, y)

\* the largest of the <<ratio, x>> pairs of the close matches (heapq.nlargest
\* with n=1), None when there is no close match
BestMatch(close, ratio) ==
    IF close = {} THEN None
    ELSE Some(CHOOSE x \in close :
                 \A y \in close \ {x} : ScoredLess(ratio[y], y, ratio[x], x))

\* difflib.get_close_matches(word, possibilities, n=1, cutoff=0.7): the
\* possibility with the largest (ratio, possibility) among those whose ratio
\* to word reaches the cutoff; None stands for the empty list
get_close_matches(word, possibilities) ==
    LET ratio == [x \in possibilities |-> Ratio(x, word)]
    IN BestMatch({x \in possibilities : AtLeastCutoff(ratio[x])}, ratio)

\* correct_spelling(user_input): matches[0] if matches else None
correct_spelling(user_input) ==
    get_close_matches(Lower(user_input), DOMAIN LANGUAGE_CODES)

I_Tamill == <<"T","a","m","i","l","l">>

I_Xyzzy == <<"X","y","z","z","y">>

I_tai == <<"t","a","i">>

I_mal == <<"m","a","l">>

I_TELUGU == <<"T","E","L","U","G","U">>

I_marati == <<"m","a","r","a","t","i">>

I_hindu == <<"h","i","n","d","u">>

I_tamindi == <<"t","a","m","i","n","d","i">>

Q_leo == <<"l","e","o">>

\* the <language> path segments and lang parameters clients send
LanguageInputs ==
    {L_tamil, I_Tamill, I_tai, I_TELUGU, I_marati, I_hindu, I_tamindi, I_Xyzzy, I_mal}

\* @lru_cache(maxsize=128) on correct_spelling: the memo of a pure function
\* holds, for an input, what the function returns for it
CorrectSpellingMemo == [w \in LanguageInputs |-> correct_spelling(w)]

\* correct_spelling(user_input) through its memo
CorrectSpelling(user_input) == CorrectSpellingMemo[user_input]


(***************************************************************************)
(* More of Python's str, as process_movie_block uses it                    *)
(***************************************************************************)
\* str.find(sep) + 1: the first index where sep starts, 0 when it does not occur
Find(s, sep) ==
    LET at == {j \in 1..Len(s) : LitAtCS(s, j, sep) # 0}
    IN IF at = {} THEN 0 ELSE CHOOSE j \in at : \A m \in at : j <= m

\* sep in s
Contains(s, sep) == Find(s, sep) # 0

\* str.split(sep): the list of the parts around every occurrence of sep
RECURSIVE Split(_, _)
Split(s, sep) ==
    LET j == Find(s, sep)
    IN IF j = 0 THEN <<s>>
       ELSE <<SubSeq(s, 1, j - 1)>> \o Split(SubSeq(s, j + Len(sep), Len(s)), sep)

\* str.replace(old, new) for a one-character old
ReplaceChar(s, old, new) == [k \in 1..Len(s) |-> IF s[k] = old THEN new ELSE s[k]]

\* str.split() with no separator: the maximal runs of non-whitespace
RECURSIVE Words(_)
Words(s) ==
    LET i == SkipWs(s, 1)
    IN IF i > Len(s) THEN << >>
       ELSE LET ends == {j \in i..Len(s) : j = Len(s) \/ IsSpace(s[j + 1])}
                e    == CHOOSE j \in ends : \A m \in ends : j <= m
            IN <<SubSeq(s, i, e)>> \o Words(SubSeq(s, e + 1, Len(s)))

\* ' '.join(words)
RECURSIVE JoinSpace(_)
JoinSpace(words) ==
    IF words = << >> THEN << >>
    ELSE IF Len(words) = 1 THEN words[1]
    ELSE words[1] \o <<" ">> \o JoinSpace(Tail(words))

IsLetter(c) == LowerChar(c) # c \/ UpperChar(c) # c

\* str.capitalize(): first character upper, the rest lower
Capitalize(w) ==
    [k \in 1..Len(w) |-> IF k = 1 THEN UpperChar(w[k]) ELSE LowerChar(w[k])]

\* str.title(): a letter after a letter is lowered, any other letter is raised
TitleCase(s) ==
    [k \in 1..Len(s) |->
        IF k > 1 /\ IsLetter(s[k - 1]) THEN LowerChar(s[k]) ELSE UpperChar(s[k])]

\* the escapes urllib.parse.unquote decodes here: %XX for the characters the
\* modelled link targets use (any other % is left as it stands)
PercentCodes ==
    { <<"2","0"," ">>, <<"2","8","(">>, <<"2","9",")">>, <<"2","D","-">>,
      <<"2","B","+">>, <<"2","6","&">>, <<"2","F","/">> }

\* urllib.parse.unquote
RECURSIVE unquote(_)
unquote(s) ==
    IF s = << >> THEN << >>
    ELSE IF /\ s[1] = "%"
            /\ Len(s) >= 3
            /\ \E pc \in PercentCodes : pc[1] = s[2] /\ pc[2] = UpperChar(s[3])
         THEN <<(CHOOSE pc \in PercentCodes :
                    pc[1] = s[2] /\ pc[2] = UpperChar(s[3]))[3]>>
              \o unquote(SubSeq(s, 4, Len(s)))
         ELSE <<s[1]>> \o unquote(Tail(s))

S_watch == <<"/","w","a","t","c","h","/">>

S_titleEq == <<"t","i","t","l","e","=">>

S_Untitled == <<"U","n","t","i","t","l","e","d">>

\* 'Untitled Movie (Title Not Found)'
Sentinel ==
    <<"U","n","t","i","t","l","e","d"," ","M","o","v","i","e"," ",
      "(","T","i","t","l","e"," ","N","o","t"," ","F","o","u","n","d",")">>

\* ' '.join(word.capitalize() for word in kept)
JoinCapitalized(kept) == JoinSpace([k \in 1..Len(kept) |-> Capitalize(kept[k])])

\* src/app.py:135: the words of the slug that are not numbers, capitalised
SlugTitle(slug) ==
    JoinCapitalized(SelectSeq(Words(ReplaceChar(unquote(slug), "-", " ")),
                              LAMBDA w : w # << >> /\ ~IsDigitStr(w)))

\* `if temp_title`: the string when it is not empty
NonEmpty(str) == IF str # << >> THEN Some(str) ELSE None

\* lines 131-146: the text the link target gives before clean_title takes
\* it: the slug after /watch/ (line 137: only when it is not empty), else the
\* title= parameter; None when the link gives none
LinkText(href) ==
    IF Contains(href, S_watch)
    THEN NonEmpty(SlugTitle(Split(Split(href, S_watch)[2], <<"/">>)[1]))
    ELSE IF Contains(href, S_titleEq)
    THEN Some(TitleCase(ReplaceChar(
             unquote(Split(Split(href, S_titleEq)[2], <<"&">>)[1]), "+", " ")))
    ELSE None

\* lines 129-146: the title derived from the link target, given the title
\* the candidates left (None when none passed)
LinkTitle(title, href) ==
    IF Truthy(title) \/ ~LinkText(href).some THEN title
    ELSE clean_title(LinkText(href))

(***************************************************************************)
(* Parsed markup.  A page is what BeautifulSoup's lookups of the code see  *)
(* of it: the div.block1 blocks, the three title places and the player.    *)
(* A block is [a, href, img, src, alt, ititle, tdiv]: whether it holds an  *)
(* <a> and an <img>, their attributes (None when the attribute is missing) *)
(* and the text of its div.title (None when there is no such div).         *)
(***************************************************************************)
\* fetch_page returned None
NoContent == [kind |-> "none"]

\* a 2xx response with an empty body: b'' is falsy like None
EmptyBody == [kind |-> "empty"]

\* `if not content`
HasContent(c) == c.kind = "page"

\* f"https://einthusan.tv{link_tag['href']}"
PageUrl(href) == <<"https://einthusan.tv", href>>

\* lines 215 and 217: the listing URL of a language code, category and page
ListingUrl(lang_code, category, page) ==
    IF category = "popular"
    THEN <<"https://einthusan.tv/movie/results/", "find=Popularity", lang_code, page>>
    ELSE <<"https://einthusan.tv/movie/results/", "find=Recent", lang_code, page>>

\* line 248: the search URL (quote_plus is injective: the query stands for
\* its own encoding)
SearchUrl(lang_code, query) ==
    <<"https://einthusan.tv/movie/results/", "query", lang_code, query>>

\* line 125: cleaned and len(cleaned) > 3 and not cleaned.isdigit()
Passes(cleaned) ==
    Truthy(cleaned) /\ Len(cleaned.s) > 3 /\ ~IsDigitStr(cleaned.s)

\* lines 114-118: what each title source extracts, in order; None for a
\* source that is not there (img.get(attr, '') gives '' for a missing one)
TitleSources(b) ==
    << IF b.tdiv.some THEN Some(Strip(b.tdiv.s)) ELSE None,
       Some(Strip(b.alt.s)),
       Some(Strip(b.ititle.s)) >>

\* lines 120-127: the cleaned form of the first source that passes (the loop
\* breaks at it), None when none does
\* the loop of lines 120-127 without its break: the last source that passes
FirstPassing_noBreak(src, cleaned, good) ==
    IF good = {} THEN None
    ELSE cleaned[CHOOSE k \in good : \A m \in good : k >= m]

FirstPassing(src, cleaned, good) ==
    IF good = {} THEN None
    ELSE cleaned[CHOOSE k \in good : \A m \in good : k <= m]

\* lines 120-127 over the sources src and their cleaned forms
PassingTitle(src, cleaned) ==
    FirstPassing(src, cleaned,
                 {k \in 1..Len(src) : Truthy(src[k]) /\ Passes(cleaned[k])})

\* lines 120-127 over the sources src
CleanedTitle(src) == PassingTitle(src, [k \in 1..Len(src) |-> clean_title(src[k])])

\* lines 113-127: the title the candidates of a block leave
CandidateTitle(b) == CleanedTitle(TitleSources(b))

\* the title when line 148 is reached
TitleBeforeDetail(b) == LinkTitle(CandidateTitle(b), b.href.s)

\* line 148: the condition under which the detail page is consulted
NeedsDetail(title) ==
    \/ ~Truthy(title)
    \/ title.s = S_Untitled
    \/ title.s = Sentinel
    \/ IsDigitStr(title.s)
    \/ Len(title.s) <= 4

\* lines 87-97: the text of the first of og:title, <title> and <h1> that is
\* there and not empty (None: neither is), before clean_title takes it
PageTitleText(content) ==
    IF Truthy(content.og) THEN content.og
    ELSE IF Strip(content.ttl.s) # << >> THEN Some(Strip(content.ttl.s))
    ELSE IF Strip(content.h1.s) # << >> THEN Some(Strip(content.h1.s))
    ELSE None

\* get_title_from_movie_page on the content it is given or has fetched:
\* og:title, then <title>, then <h1>, each through clean_title
get_title_from_movie_page(content) ==
    IF ~HasContent(content) THEN None ELSE clean_title(PageTitleText(content))

\* the title of the detail page taken as it comes, found or not
OrSentinel_asFound(accurate_title) == accurate_title

\* accurate_title if accurate_title else 'Untitled Movie (Title Not Found)'
OrSentinel(accurate_title) ==
    IF Truthy(accurate_title) THEN accurate_title ELSE Some(Sentinel)

\* line 150: the title the detail page gives, or the sentinel
DetailTitle(content) == OrSentinel(get_title_from_movie_page(content))

\* what a task of the pool ends with: the block is dropped (None), an
\* exception leaves process_movie_block, or an entry is returned
Dropped == [kind |-> "none"]

Raised == [kind |-> "raise"]

\* lines 152-156: img_tag['src'] raises KeyError when the attribute is missing
BlockFinish(b, title) ==
    IF ~b.src.some THEN Raised
    ELSE [kind |-> "entry", title |-> title, img_url |-> b.src.s,
          page_url |-> PageUrl(b.href.s)]

\* lines 104-111: the block is dropped without a link or an image, and
\* link_tag['href'] raises KeyError when the attribute is missing
BlockEarly(b) ==
    IF ~(b.a /\ b.img) THEN Dropped
    ELSE IF ~b.href.some THEN Raised
    ELSE [kind |-> "go"]

\* lines 104-156 with the outcome of lines 104-111 and the title line 148
\* finds
BlockResult(b, early, title, content) ==
    IF early.kind # "go" THEN early
    ELSE IF NeedsDetail(title) THEN BlockFinish(b, DetailTitle(content))
    ELSE BlockFinish(b, title)

\* process_movie_block reaches get_title_from_movie_page(page_url_full)
BlockWantsDetail(b) ==
    BlockEarly(b).kind = "go" /\ NeedsDetail(TitleBeforeDetail(b))

\* process_movie_block, given the content fetch_page gives for the detail
\* page (read only when the block wants it)
process_movie_block(b, content) ==
    BlockResult(b, BlockEarly(b), TitleBeforeDetail(b), content)

S_etv == <<"e","t","v">>

\* "https://cdn1.einthusan.io/etv"
S_cdn ==
    <<"h","t","t","p","s",":","/","/","c","d","n","1",".","e","i","n","t","h",
      "u","s","a","n",".","i","o","/","e","t","v">>

\* extract_video_url_from_content: mp4_link.split("etv")[1] raises IndexError
\* when the link holds no "etv"
extract_video_url_from_content(page_content) ==
    IF ~HasContent(page_content) THEN [kind |-> "none"]
    ELSE IF page_content.player /\ Truthy(page_content.mp4)
         THEN LET parts == Split(page_content.mp4.s, S_etv)
              IN IF Len(parts) < 2 THEN [kind |-> "raise"]
                 ELSE [kind |-> "url", s |-> S_cdn \o parts[2]]
    ELSE [kind |-> "none"]

(***************************************************************************)
(* State                                                                   *)
(***************************************************************************)
VARIABLES
    pc,          \* "idle": no request is being served; "pool": the handler is
                 \* inside fetch_movies_by_url's `with ThreadPoolExecutor()`
    req,         \* the request being served, or the last one served
    blocks,      \* movie_blocks of that request
    tasks,       \* the pool's task per block: [st, out, detail, got]
    doneOrder,   \* history: the indexes of the tasks in completion order
    cache,       \* fetch_page's lru_cache: [url, val] entries, oldest use first
    resp,        \* the response to req, once served
    gets,        \* history: the URLs GET upstream on behalf of req, in order
    now,         \* the wall clock, in seconds (the code never reads it)
    fetchedAt,   \* history: per URL, the time of the GET that filled the cache
    lastResult,  \* history: per listing URL, how the last call for it ended
    served,      \* the number of requests accepted so far
    raw,         \* a raw title handed to clean_title on its own
    norm         \* the results of clean_title on raw, then on its own result

vars == <<pc, req, blocks, tasks, doneOrder, cache, resp, gets, now, fetchedAt,
          lastResult, served, raw, norm>>

\* the requests one behaviour accepts
MaxRequests == 2

\* the blocks of one listing page
MaxBlocks == 2

\* the clock ticks of one behaviour
MaxTicks == 2

\* one tick of the clock, in seconds
TickSeconds == 30 * 60

\* @lru_cache(maxsize=128) on fetch_page
LruMaxSize == 128

NoRequest == [kind |-> "none"]

NoResponse == [kind |-> "none"]

\* a missing query parameter or JSON null
NoInt == [some |-> FALSE, v |-> 0]

SomeInt(n) == [some |-> TRUE, v |-> n]

(***************************************************************************)
(* fetch_page and its lru_cache                                            *)
(***************************************************************************)
CacheHas(url) == \E k \in 1..Len(cache) : cache[k].url = url

CacheGet(url) == cache[CHOOSE k \in 1..Len(cache) : cache[k].url = url].val

\* a hit makes the entry the most recently used one
CacheTouch(url) ==
    SelectSeq(cache, LAMBDA e : e.url # url)
    \o SelectSeq(cache, LAMBDA e : e.url = url)

\* the result of a miss is stored, evicting the least recently used entry of
\* a full cache; a key stored meanwhile by another thread keeps its value
CacheInsert(url, val) ==
    IF CacheHas(url) THEN cache
    ELSE LET c == Append(cache, [url |-> url, val |-> val])
         IN IF Len(c) > LruMaxSize THEN Tail(c) ELSE c

\* history: the time of the GET that stores url, when url is not cached
FetchedAtAfter(url) ==
    IF CacheHas(url) THEN fetchedAt
    ELSE [u \in DOMAIN fetchedAt \cup {url} |-> IF u = url THEN now ELSE fetchedAt[u]]

LastResultOf(url) == IF url \in DOMAIN lastResult THEN lastResult[url] ELSE "never"

FetchedAtOf(url) == IF url \in DOMAIN fetchedAt THEN SomeInt(fetchedAt[url]) ELSE NoInt

SetLastResult(url, r) ==
    [u \in DOMAIN lastResult \cup {url} |-> IF u = url THEN r ELSE lastResult[u]]

(***************************************************************************)
(* fetch_movies_by_url: the pool                                           *)
(***************************************************************************)
QueuedTask == [st |-> "queued", out |-> [kind |-> "pending"], detail |-> FALSE,
               got |-> None]

\* the results read as the tasks complete (as concurrent.futures.as_completed
\* would give them)
ResultOrder_completion(n, completed) == completed

\* executor.map yields the results in the order of submission, whatever the
\* order of completion
ResultOrder(n, completed) == [k \in 1..n |-> k]

\* list(filter(None, results)): the entries, without the dropped blocks
RECURSIVE FilterNone(_)
FilterNone(outs) ==
    IF outs = << >> THEN << >>
    ELSE IF outs[1].kind = "entry" THEN <<outs[1]>> \o FilterNone(Tail(outs))
    ELSE FilterNone(Tail(outs))

\* the index of the first task, in the order the results are read, that raised
\* with every task before it done; 0 when the results are read to the end
FirstRaised(order) ==
    LET hit == {k \in 1..Len(order) :
                  /\ tasks[order[k]].st = "done"
                  /\ tasks[order[k]].out.kind = "raise"
                  /\ \A m \in 1..(k - 1) : tasks[order[m]].st = "done"}
    IN IF hit = {} THEN 0 ELSE CHOOSE k \in hit : \A m \in hit : k <= m

\* the envelope of a served list of movies (lines 221-227 and 252-256)
Envelope(r, movies) ==
    IF r.kind = "movies"
    THEN [kind |-> "movies", status |-> 200, language |-> r.corrected,
          category |-> r.category, page |-> r.page, movies |-> movies,
          next_page |-> IF movies # << >> THEN SomeInt(r.page + 1) ELSE NoInt]
    ELSE [kind |-> "search", status |-> 200, language |-> r.corrected,
          query |-> r.query, results |-> movies]

\* Flask's answer to an exception that leaves a view function
Unhandled(kind) == [kind |-> kind, status |-> 500, error |-> "unhandled exception"]

\* fetch_movies_by_url(url) for the request r once fetch_page(url) gave
\* content, GETting upstream or not: an empty list at once without content,
\* else the tasks are submitted to the pool
FetchMoviesWith(r, url, content, upstream) ==
    /\ cache' = IF upstream THEN CacheInsert(url, content) ELSE CacheTouch(url)
    /\ gets' = IF upstream THEN <<url>> ELSE << >>
    /\ fetchedAt' = FetchedAtAfter(url)
    /\ req' = [r EXCEPT !.url = url, !.prev = LastResultOf(url),
                        !.prevAt = FetchedAtOf(url), !.at = now]
    /\ doneOrder' = << >>
    /\ IF ~HasContent(content)
       THEN /\ pc' = "idle"
            /\ blocks' = << >>
            /\ tasks' = << >>
            /\ resp' = Envelope(r, << >>)
            /\ lastResult' = SetLastResult(url, "empty")
       ELSE /\ pc' = "pool"
            /\ blocks' = content.blocks
            /\ tasks' = [k \in 1..Len(content.blocks) |-> QueuedTask]
            /\ resp' = NoResponse
            /\ UNCHANGED lastResult

\* fetch_movies_by_url(url): fetch_page(url) is the cached value on a hit,
\* else one of the replies the upstream may give (None for any
\* RequestException)
FetchMoviesStart(r, url, replies) ==
    IF CacheHas(url) THEN FetchMoviesWith(r, url, CacheGet(url), FALSE)
    ELSE \E reply \in replies : FetchMoviesWith(r, url, reply, TRUE)

\* a request as the handlers see it, with the language correct_spelling gave
\* and the history fields of the listing it came to read
Request(kind, language, corrected, category, page, query) ==
    [kind |-> kind, language |-> language, corrected |-> corrected,
     category |-> category, page |-> page, query |-> query, url |-> << >>,
     prev |-> "never", prevAt |-> NoInt, at |-> now]

\* a request refused before any fetch
Refuse(r, status, error) ==
    /\ req' = r
    /\ resp' = [kind |-> r.kind, status |-> status, error |-> error]
    /\ gets' = << >>
    /\ blocks' = << >>
    /\ tasks' = << >>
    /\ doneOrder' = << >>
    /\ UNCHANGED <<pc, cache, fetchedAt, lastResult>>

\* a language that is not recognised listed as Tamil
GetMoviesFor_defaulting(r, replies) ==
    FetchMoviesStart(r, ListingUrl(LANGUAGE_CODES[IF r.corrected = None THEN L_tamil
                                                  ELSE r.corrected.s],
                                   r.category, r.page), replies)

\* lines 205-219: 400 for a language that is not recognised, else the listing
GetMoviesFor(r, replies) ==
    IF r.corrected = None THEN Refuse(r, 400, "Invalid language specified")
    ELSE FetchMoviesStart(r, ListingUrl(LANGUAGE_CODES[r.corrected.s], r.category,
                                        r.page), replies)

\* lines 235-250: 400 for a missing parameter, 400 for a language that is not
\* recognised, else the search listing
SearchMoviesFor(r, replies) ==
    IF ~Truthy(r.language) \/ ~Truthy(r.query)
    THEN Refuse(r, 400, "Missing 'lang' or 'q' query parameters")
    ELSE IF r.corrected = None THEN Refuse(r, 400, "Invalid language specified")
    ELSE FetchMoviesStart(r, SearchUrl(LANGUAGE_CODES[r.corrected.s], r.query.s),
                          replies)

\* GET /api/movies/<language>?category=&page= (get_movies_by_language)
GetMovies(language, category, page, replies) ==
    /\ pc = "idle"
    /\ served < MaxRequests
    /\ served' = served + 1
    /\ UNCHANGED <<now, raw, norm>>
    /\ GetMoviesFor(Request("movies", Some(language), CorrectSpelling(language),
                            category, page, None), replies)

\* GET /api/search?lang=&q= (search_movies); a missing parameter is None
SearchMovies(language, query, replies) ==
    /\ pc = "idle"
    /\ served < MaxRequests
    /\ served' = served + 1
    /\ UNCHANGED <<now, raw, norm>>
    /\ SearchMoviesFor(Request("search", language,
                               IF Truthy(language) /\ Truthy(query)
                               THEN CorrectSpelling(language.s) ELSE None,
                               "", 0, query), replies)

\* a task done: the outcome of its block, whether the detail page was
\* consulted and what get_title_from_movie_page gave for it
TaskDone(b, early, title, detail, content) ==
    [st |-> "done", out |-> BlockResult(b, early, title, content), detail |-> detail,
     got |-> IF detail THEN get_title_from_movie_page(content) ELSE None]

\* process_movie_block for task i on block b, with the outcome of lines
\* 104-111 and the title line 148 finds: to its end when the detail page is
\* not consulted or fetch_page hits, else up to the GET
TaskRunOn(i, b, early, title) ==
    IF ~(early.kind = "go" /\ NeedsDetail(title))
    THEN /\ tasks' = [tasks EXCEPT ![i] = TaskDone(b, early, title, FALSE, NoContent)]
         /\ doneOrder' = Append(doneOrder, i)
         /\ UNCHANGED <<cache, gets, fetchedAt>>
    ELSE IF CacheHas(PageUrl(b.href.s))
    THEN /\ tasks' = [tasks EXCEPT ![i] =
                        TaskDone(b, early, title, TRUE, CacheGet(PageUrl(b.href.s)))]
         /\ doneOrder' = Append(doneOrder, i)
         /\ cache' = CacheTouch(PageUrl(b.href.s))
         /\ UNCHANGED <<gets, fetchedAt>>
    ELSE /\ tasks' = [tasks EXCEPT ![i].st = "fetching", ![i].detail = TRUE]
         /\ gets' = Append(gets, PageUrl(b.href.s))
         /\ UNCHANGED <<doneOrder, cache, fetchedAt>>

\* a worker runs process_movie_block(blocks[i]) up to its end, or up to the
\* GET of the detail page when fetch_page misses
TaskRun(i) ==
    /\ pc = "pool"
    /\ i \in 1..Len(tasks)
    /\ tasks[i].st = "queued"
    /\ UNCHANGED <<pc, req, blocks, resp, now, lastResult, served, raw, norm>>
    /\ TaskRunOn(i, blocks[i], BlockEarly(blocks[i]), TitleBeforeDetail(blocks[i]))

\* the GET of a worker returns (None for any RequestException) and the
\* worker runs process_movie_block to its end
TaskFetchReturn(i, reply) ==
    /\ pc = "pool"
    /\ i \in 1..Len(tasks)
    /\ tasks[i].st = "fetching"
    /\ UNCHANGED <<pc, req, blocks, resp, gets, now, lastResult, served, raw, norm>>
    /\ LET url == PageUrl(blocks[i].href.s)
       IN /\ cache' = CacheInsert(url, reply)
          /\ fetchedAt' = FetchedAtAfter(url)
          /\ tasks' = [tasks EXCEPT ![i] =
                        TaskDone(blocks[i], BlockEarly(blocks[i]),
                                 TitleBeforeDetail(blocks[i]), TRUE, reply)]
          /\ doneOrder' = Append(doneOrder, i)

\* the results read in the given order, an exception leaving the handler at
\* the first task that raised, else the movies served
GatherOf(raised, movies) ==
    /\ raised # 0 \/ \A k \in 1..Len(tasks) : tasks[k].st = "done"
    /\ pc' = "idle"
    /\ tasks' = [k \in 1..Len(tasks) |->
                  IF tasks[k].st = "queued"
                  THEN [tasks[k] EXCEPT !.st = "cancelled"] ELSE tasks[k]]
    /\ resp' = IF raised # 0 THEN Unhandled(req.kind) ELSE Envelope(req, movies)
    /\ lastResult' = SetLastResult(req.url,
                       IF raised # 0 THEN "error"
                       ELSE IF movies = << >> THEN "empty" ELSE "nonempty")

\* lines 167-170: list(filter(None, results)) over the results in order
GatherIn(order) ==
    GatherOf(FirstRaised(order),
             FilterNone([k \in 1..Len(order) |-> tasks[order[k]].out]))

\* the handler reads the results: no worker is inside a GET (the `with` block
\* waits for the running tasks); either every task is done, or a task that
\* raised is reached, its exception leaves the handler and the tasks not yet
\* started are cancelled
Gather ==
    /\ pc = "pool"
    /\ \A k \in 1..Len(tasks) : tasks[k].st # "fetching"
    /\ GatherIn(ResultOrder(Len(tasks), doneOrder))
    /\ UNCHANGED <<req, blocks, doneOrder, cache, gets, now, fetchedAt, served, raw, norm>>

S_UnknownMovie == <<"U","n","k","n","o","w","n"," ","M","o","v","i","e">>

\* lines 282-285: the fetched title replaces the default 'Unknown Movie'
ShownTitle(movie_title, fetched_title) ==
    IF movie_title.s = S_UnknownMovie /\ Truthy(fetched_title)
    THEN fetched_title ELSE movie_title

\* lines 280-293: an exception of extract_video_url_from_content leaves the
\* handler; 200 with the video URL, else 404
WatchAnswer(video_url, shown_title) ==
    IF video_url.kind = "raise" THEN Unhandled("watch")
    ELSE IF video_url.kind = "url"
    THEN [kind |-> "watch", status |-> 200, movie_title |-> shown_title,
          video_url |-> Some(video_url.s)]
    ELSE [kind |-> "watch", status |-> 404, movie_title |-> shown_title,
          error |-> "Video URL not found or failed to extract."]

\* lines 276-293: the answer of get_video_url once the page is fetched
WatchResponse(movie_title, page_content) ==
    IF ~HasContent(page_content)
    THEN [kind |-> "watch", status |-> 500,
          error |-> "Could not fetch content from the provided URL"]
    ELSE WatchAnswer(extract_video_url_from_content(page_content),
                     ShownTitle(movie_title, get_title_from_movie_page(page_content)))

\* GET /api/watch?url=&title= (get_video_url); a missing parameter is None,
\* a missing url the empty tuple
GetVideoUrl(url, title, replies) ==
    /\ pc = "idle"
    /\ served < MaxRequests
    /\ served' = served + 1
    /\ UNCHANGED <<pc, now, lastResult, raw, norm>>
    /\ blocks' = << >>
    /\ tasks' = << >>
    /\ doneOrder' = << >>
    /\ req' = [kind |-> "watch", language |-> None, corrected |-> None,
               category |-> "", page |-> 0, query |-> title, url |-> url,
               prev |-> "never", prevAt |-> NoInt, at |-> now]
    /\ LET movie_title == IF title.some THEN title ELSE Some(S_UnknownMovie)
       IN IF url = << >>
          THEN /\ resp' = [kind |-> "watch", status |-> 400,
                           error |-> "Movie page URL ('url' parameter) is missing"]
               /\ gets' = << >>
               /\ UNCHANGED <<cache, fetchedAt>>
          ELSE IF CacheHas(url)
          THEN /\ resp' = WatchResponse(movie_title, CacheGet(url))
               /\ cache' = CacheTouch(url)
               /\ gets' = << >>
               /\ UNCHANGED fetchedAt
          ELSE \E reply \in replies :
                  /\ resp' = WatchResponse(movie_title, reply)
                  /\ cache' = CacheInsert(url, reply)
                  /\ gets' = <<url>>
                  /\ fetchedAt' = FetchedAtAfter(url)

\* time passes between two requests
Tick ==
    /\ pc = "idle"
    /\ now < MaxTicks * TickSeconds
    /\ now' = now + TickSeconds
    /\ UNCHANGED <<pc, req, blocks, tasks, doneOrder, cache, resp, gets, fetchedAt,
                   lastResult, served, raw, norm>>

\* clean_title applied to raw
Normalize ==
    /\ norm = << >>
    /\ norm' = <<clean_title(Some(raw))>>
    /\ UNCHANGED <<pc, req, blocks, tasks, doneOrder, cache, resp, gets, now,
                   fetchedAt, lastResult, served, raw>>

\* clean_title applied to its own result
NormalizeAgain ==
    /\ Len(norm) = 1
    /\ norm' = Append(norm, clean_title(norm[1]))
    /\ UNCHANGED <<pc, req, blocks, tasks, doneOrder, cache, resp, gets, now,
                   fetchedAt, lastResult, served, raw>>

(***************************************************************************)
(* The inputs: what clients send and what the upstream site replies        *)
(***************************************************************************)
Blk(a, href, img, src, alt, ititle, tdiv) ==
    [a |-> a, href |-> href, img |-> img, src |-> src, alt |-> alt,
     ititle |-> ititle, tdiv |-> tdiv]

H_jailer == <<"/","w","a","t","c","h","/","j","a","i","l","e","r","-","2","0","2","3","/">>

H_vikram == <<"/","w","a","t","c","h","/","v","i","k","r","a","m","/">>

H_code == <<"/","m","o","v","i","e","/","7","A","b","c","/">>

H_leo == <<"/","w","a","t","c","h","/","l","e","o","/">>

H_kaithi == <<"/","w","a","t","c","h","/","k","a","i","t","h","i","-","2","0","1","9","/">>

H_96 == <<"/","w","a","t","c","h","/","9","6","/">>

H_query == <<"/","x","/","?","t","i","t","l","e","=","l","e","o","+","2","0","2","3","&","l","=","t">>

H_rrr == <<"/","x","/","?","t","i","t","l","e","=","r","r","r">>

T_JailerYear == <<"J","a","i","l","e","r"," ","(","2","0","2","3",")">>

T_JailerYearTamil ==
    <<"J","a","i","l","e","r"," ","(","2","0","2","3",")"," ","[","T","a","m","i","l","]">>

T_Vikram == <<"V","i","k","r","a","m">>

T_Leo2023 == <<"L","e","o"," ","2","0","2","3">>

T_Jail == <<"J","a","i","l">>

T_2023 == <<"2","0","2","3">>

T_96 == <<"9","6">>

T_EinthusanLeo ==
    <<"E","i","n","t","h","u","s","a","n"," ","-"," ","L","e","o"," ","(","2","0","2","3",")">>

T_KaithiHD ==
    <<"K","a","i","t","h","i"," ","(","2","0","1","9",")"," ","T","a","m","i","l"," ",
      "i","n"," ","H","D"," ","-"," ","E","i","n","t","h","u","s","a","n">>

T_KaithiBrand == <<"K","a","i","t","h","i"," ","|"," ","E","i","n","t","h","u","s","a","n">>

T_Master == <<"M","a","s","t","e","r">>

T_Movies == <<"M","o","v","i","e","s">>

\* a well-formed block whose div.title passes
BlockJailer ==
    Blk(TRUE, Some(H_jailer), TRUE, Some(<<"j",".","j","p","g">>), None, None,
        Some(T_JailerYear))

\* a well-formed block titled by its image's alt text
BlockVikram ==
    Blk(TRUE, Some(H_vikram), TRUE, Some(<<"v",".","j","p","g">>), Some(T_Vikram),
        None, None)

\* no title anywhere and a link that yields none: the detail page is needed
BlockCode ==
    Blk(TRUE, Some(H_code), TRUE, Some(<<"c",".","j","p","g">>), None, None, None)

\* no <img>
BlockNoImage == Blk(TRUE, Some(H_leo), FALSE, None, None, None, Some(T_Leo2023))

\* an <a> without href
BlockNoHref ==
    Blk(TRUE, None, TRUE, Some(<<"l",".","j","p","g">>), None, None, Some(T_Leo2023))

\* an <img> without src
BlockNoSrc == Blk(TRUE, Some(H_leo), TRUE, None, None, None, Some(T_Leo2023))

CoreBlocks ==
    {BlockJailer, BlockVikram, BlockCode, BlockNoImage, BlockNoHref, BlockNoSrc}

\* blocks that differ in their title places and link targets only
RichBlocks ==
    {Blk(TRUE, Some(h), TRUE, Some(<<"j",".","j","p","g">>), alt, ititle, tdiv) :
        h \in {H_code, H_kaithi, H_96, H_query, H_rrr},
        alt \in {None, Some(T_Vikram), Some(T_96)},
        ititle \in {None, Some(T_EinthusanLeo)},
        tdiv \in {None, Some(T_JailerYearTamil), Some(T_Jail), Some(T_2023), Some(<<" ">>)}}

\* a page with the given blocks and a <title> of its own
ListingPage(bs) ==
    [kind |-> "page", blocks |-> bs, og |-> None, ttl |-> Some(T_Movies),
     h1 |-> None, player |-> FALSE, mp4 |-> None]

\* a page without blocks: the three title places and the player
DetailPage(og, ttl, h1, player, mp4) ==
    [kind |-> "page", blocks |-> << >>, og |-> og, ttl |-> ttl, h1 |-> h1,
     player |-> player, mp4 |-> mp4]

M_etv == <<"/","/","x","/","e","t","v","/","k",".","m","p","4">>

M_plain == <<"/","/","x","/","k",".","m","p","4">>

\* what a detail URL may reply: failure, an empty body, and pages with and
\* without titles, player, data-mp4-link and the "etv" marker in it
DetailReplies ==
    {NoContent, EmptyBody,
     DetailPage(Some(T_KaithiHD), Some(T_Movies), None, TRUE, Some(M_etv)),
     DetailPage(None, Some(T_KaithiBrand), None, TRUE, Some(M_plain)),
     DetailPage(None, None, Some(T_Master), TRUE, None),
     DetailPage(None, Some(T_2023), None, FALSE, None),
     DetailPage(None, None, None, FALSE, None)}

SeqsUpTo(S, n) == UNION {[1..k -> S] : k \in 0..n}

\* what the listing URL of the pool's specification may reply
PoolReplies ==
    {NoContent} \cup {ListingPage(bs) : bs \in SeqsUpTo(CoreBlocks, MaxBlocks)}

\* what the listing URL of the block's specification may reply
BlockReplies == {ListingPage(<<b>>) : b \in RichBlocks}

\* what a listing or search URL of the whole service may reply
ServiceReplies ==
    {NoContent, ListingPage(<< >>), ListingPage(<<BlockJailer>>),
     ListingPage(<<BlockCode, BlockVikram>>)}

\* what a listing or search URL of the language specification may reply
LanguageReplies == {NoContent, ListingPage(<<BlockJailer>>)}

Categories == {"recent", "popular"}

\* raw titles: a prefix, a core and a suffix each
RawTitles ==
    {pre \o core \o suf :
        pre \in {<< >>, <<"E","i","n","t","h","u","s","a","n"," ","-"," ">>,
                 <<"e","i","n","t","h","u","s","a","n","&ndash;">>},
        core \in {T_Vikram, T_Jail, T_96, T_2023, << >>},
        suf \in {<< >>, <<" ","(","2","0","2","3",")">>,
                 <<" ","[","T","a","m","i","l","]">>,
                 <<" ","(","2","0","2","3",")"," ","[","T","a","m","i","l","]">>,
                 <<" ","[","h","i","n","d","i","]"," ","(","2","0","2","3",")">>,
                 <<" ","(","2","0","2","3",")"," ","(","1","9","9","9",")">>,
                 <<" ","(","2","0","1","9",")"," ","T","a","m","i","l"," ","i","n"," ",
                   "H","D"," ","-"," ","E","i","n","t","h","u","s","a","n">>,
                 <<" ","|"," ","E","i","n","t","h","u","s","a","n"," ","-"," ",
                   "W","a","t","c","h"," ","M","o","v","i","e","s"," ","O","n","l","i","n","e">>,
                 <<" ","O","n","l","i","n","e"," ","W","a","t","c","h"," ","F","r","e","e"," ","S","D">>,
                 <<" ","F","r","e","e"," ","M","o","v","i","e","s"," ","O","n","l","i","n","e">>}}

(***************************************************************************)
(* Specifications                                                          *)
(***************************************************************************)
\* the state after the module is imported: nothing cached, nothing served
Init ==
    /\ pc = "idle"
    /\ req = NoRequest
    /\ blocks = << >>
    /\ tasks = << >>
    /\ doneOrder = << >>
    /\ cache = << >>
    /\ resp = NoResponse
    /\ gets = << >>
    /\ now = 0
    /\ fetchedAt = << >>
    /\ lastResult = << >>
    /\ served = 0
    /\ raw = << >>
    /\ norm = << >>

\* the whole service: the three endpoints, the pool and the clock
Next ==
    \/ \E language \in {I_Tamill, I_Xyzzy}, category \in Categories, page \in {1} :
          GetMovies(language, category, page, ServiceReplies)
    \/ \E language \in {None, Some(I_tai), Some(I_mal)}, query \in {None, Some(Q_leo)} :
          SearchMovies(language, query, ServiceReplies)
    \/ \E url \in {<< >>, PageUrl(H_code)}, title \in {None, Some(T_Vikram)} :
          GetVideoUrl(url, title, DetailReplies)
    \/ \E i \in 1..MaxBlocks : TaskRun(i)
    \/ \E i \in 1..MaxBlocks, reply \in DetailReplies : TaskFetchReturn(i, reply)
    \/ Gather
    \/ Tick

Spec == Init /\ [][Next]_vars

\* one listing URL, every page of up to MaxBlocks blocks, every interleaving
\* of the pool's tasks
NextPool ==
    \/ GetMovies(L_tamil, "recent", 1, PoolReplies)
    \/ \E i \in 1..MaxBlocks : TaskRun(i)
    \/ \E i \in 1..MaxBlocks, reply \in DetailReplies : TaskFetchReturn(i, reply)
    \/ Gather

SpecPool == Init /\ [][NextPool]_vars

\* one listing URL whose page holds one block, over the title places
NextBlock ==
    \/ GetMovies(L_tamil, "recent", 1, BlockReplies)
    \/ TaskRun(1)
    \/ \E reply \in DetailReplies : TaskFetchReturn(1, reply)
    \/ Gather

SpecBlock == Init /\ [][NextBlock]_vars

\* listing and search requests over the language inputs
NextLanguage ==
    \/ \E language \in LanguageInputs, category \in Categories :
          GetMovies(language, category, 1, LanguageReplies)
    \/ \E language \in {Some(l) : l \in LanguageInputs} \cup {None, Some(<< >>)},
          query \in {None, Some(Q_leo)} :
          SearchMovies(language, query, LanguageReplies)
    \/ TaskRun(1)
    \/ Gather

SpecLanguage == Init /\ [][NextLanguage]_vars

\* clean_title on its own, over the raw titles
InitTitle ==
    /\ pc = "idle"
    /\ req = NoRequest
    /\ blocks = << >>
    /\ tasks = << >>
    /\ doneOrder = << >>
    /\ cache = << >>
    /\ resp = NoResponse
    /\ gets = << >>
    /\ now = 0
    /\ fetchedAt = << >>
    /\ lastResult = << >>
    /\ served = 0
    /\ raw \in RawTitles \ {<< >>}
    /\ norm = << >>

NextTitle == Normalize \/ NormalizeAgain

SpecTitle == InitTitle /\ [][NextTitle]_vars

(***************************************************************************)
(* Properties                                                              *)
(***************************************************************************)
\* the blocks that hold a link and an image, in the order of the markup
Survivors(bs) == SelectSeq(bs, LAMBDA b : b.a /\ b.img)

\* C1: whatever the order in which the pool's tasks complete, a listing that
\* is served holds one entry per block with a link and an image, in the order
\* of the blocks in the markup
C1_OrderPreserved ==
    (resp.kind = "movies" /\ resp.status = 200) =>
        /\ Len(resp.movies) = Len(Survivors(blocks))
        /\ \A j \in 1..Len(resp.movies) :
              /\ resp.movies[j].page_url = PageUrl(Survivors(blocks)[j].href.s)
              /\ resp.movies[j].img_url = Survivors(blocks)[j].src.s

\* two different entries served in block order although the second block's
\* task completed first
C1_Witness ==
    /\ resp.kind = "movies"
    /\ resp.status = 200
    /\ Len(resp.movies) = 2
    /\ resp.movies[1] # resp.movies[2]
    /\ doneOrder = <<2, 1>>

\* a block with its link, link target, image and image source
WellFormed(b) == b.a /\ b.href.some /\ b.img /\ b.src.some

\* C2: a listing page with blocks is served normally whatever its blocks
\* lack, with an entry for every block that holds all mandatory fields and
\* none for the others
C2_BlockFailureIsLocal ==
    (pc = "idle" /\ blocks # << >>) =>
        /\ resp.status = 200
        /\ Len(resp.movies) = Len(SelectSeq(blocks, LAMBDA b : WellFormed(b)))

\* C3: every entry a block yields, and every entry served, has a title that is
\* there and not empty, and it is the sentinel when the detail page was
\* consulted and gave no title
C3_TitleNeverEmpty ==
    /\ \A i \in 1..Len(tasks) :
          tasks[i].out.kind = "entry" =>
              /\ tasks[i].out.title.some
              /\ tasks[i].out.title.s # << >>
              /\ (tasks[i].detail /\ ~Truthy(tasks[i].got)) =>
                     tasks[i].out.title.s = Sentinel
    /\ (resp.kind = "movies" /\ resp.status = 200) =>
          \A j \in 1..Len(resp.movies) : Truthy(resp.movies[j].title)

\* an entry served with the sentinel as its title, after a detail page that
\* gave none
C3_Witness ==
    /\ resp.kind = "movies"
    /\ resp.status = 200
    /\ Len(resp.movies) = 1
    /\ resp.movies[1].title = Some(Sentinel)
    /\ tasks[1].detail
    /\ ~Truthy(tasks[1].got)

\* the listing request being served, or served last, was fetched upstream
ListingFetched == gets # << >> /\ gets[1] = req.url

\* C4: a listing call that follows a call for the same listing which ended
\* with no entries (the fetch failed or the page held none) fetches upstream
C4_EmptyNeverCached ==
    (req.kind = "movies" /\ req.url # << >> /\ req.prev = "empty") => ListingFetched

\* the time-to-live of a cached listing, in seconds (spec section 4.7)
TTL == 60 * 60

\* C5: of two calls for (popular, page 1) of a language the second, when it
\* follows a call that served entries, fetches upstream if and only if the
\* TTL has elapsed since the fetch that was stored
C5_ExpiresAfterTTL ==
    (/\ req.kind = "movies"
     /\ req.category = "popular"
     /\ req.page = 1
     /\ req.url # << >>
     /\ req.prev = "nonempty"
     /\ req.prevAt.some) =>
        (ListingFetched <=> req.at - req.prevAt.v >= TTL)

\* the detail page of the watch request served last, as fetch_page gave it
WatchedPage == CacheGet(req.url)

\* a watch request was served from a page that was fetched
WatchedFetched ==
    /\ req.kind = "watch"
    /\ resp.kind = "watch"
    /\ req.url # << >>
    /\ CacheHas(req.url)
    /\ HasContent(WatchedPage)

\* C6: a watch request whose page was fetched and holds no video URL is
\* answered with success
C6_MissingVideoIsSuccess ==
    (WatchedFetched /\ extract_video_url_from_content(WatchedPage).kind = "none") =>
        resp.status = 200

\* C7: the video URL resolver raises on no page it is given
C7_ResolverNeverRaises ==
    WatchedFetched => extract_video_url_from_content(WatchedPage).kind # "raise"

\* C8: clean_title applied to its own result, when that is not empty, gives
\* that result again
C8_Idempotent == (Len(norm) = 2 /\ Truthy(norm[1])) => norm[2] = norm[1]

\* C9: correct_spelling gives one of the eight languages or None, and a
\* listing or search request whose language it gives None for is answered
\* with 400 and no upstream fetch
C9_InvalidLanguageSurfaced ==
    req.kind \in {"movies", "search"} =>
        /\ req.corrected \in {None} \cup {Some(x) : x \in DOMAIN LANGUAGE_CODES}
        /\ req.corrected = None =>
              /\ pc = "idle"
              /\ resp.status = 400
              /\ gets = << >>
              /\ tasks = << >>

\* a listing request for "Xyzzy" answered with 400 and no fetch
C9_Witness ==
    /\ req.kind = "movies"
    /\ req.language = Some(I_Xyzzy)
    /\ req.corrected = None
    /\ resp.status = 400
    /\ resp.error = "Invalid language specified"
    /\ gets = << >>

\* spec section 4.4, step 4: a single token of 2 to 8 alphanumeric characters
\* that contains a digit or no vowel
LooksLikeCode(str) ==
    /\ Len(str) \in 2..8
    /\ \A k \in 1..Len(str) : IsLetter(str[k]) \/ IsDigit(str[k])
    /\ \/ \E k \in 1..Len(str) : IsDigit(str[k])
       \/ \A k \in 1..Len(str) : LowerChar(str[k]) \notin {"a", "e", "i", "o", "u"}

\* the claim as it stands, for a block's task and the title its candidates leave
DetailIffNoCandidate(task, cand) ==
    /\ task.detail <=> (~Truthy(cand) \/ LooksLikeCode(cand.s))
    /\ task.out.title = IF task.detail THEN OrSentinel(task.got) ELSE cand

PassingSources(src, cleaned) ==
    {k \in 1..Len(src) :
        /\ Truthy(src[k])
        /\ Truthy(cleaned[k])
        /\ Len(cleaned[k].s) > 3
        /\ ~IsDigitStr(cleaned[k].s)}

\* the cleaned form of the first passing source, else the title the link
\* target gives
ChainTitle(cleaned, passing, linked) ==
    IF passing # {} THEN cleaned[CHOOSE k \in passing : \A m \in passing : k <= m]
    ELSE linked

\* empty, 'Untitled', the sentinel, a number, or at most 4 characters
TooWeak(title) ==
    \/ ~title.some
    \/ title.s = << >>
    \/ title.s = S_Untitled
    \/ title.s = Sentinel
    \/ IsDigitStr(title.s)
    \/ Len(title.s) <= 4

\* the detail page is consulted exactly for a weak title, and its title, or
\* the sentinel, is then the entry's
ChainHolds(task, title) ==
    /\ task.detail <=> TooWeak(title)
    /\ task.out.title = IF TooWeak(title)
                        THEN (IF Truthy(task.got) THEN task.got ELSE Some(Sentinel))
                        ELSE title

ChainOf(task, src, cleaned, linked) ==
    ChainHolds(task, ChainTitle(cleaned, PassingSources(src, cleaned), linked))

====
